---- MODULE Spec2Model ----
(***************************************************************************)
(* Model of ratemon/runtime/libratemon_interp.cpp: the interposed accept() *)
(* and close(), and the scheduling thread thread_func(), which rotate TCP  *)
(* flows between active_fds_queue and paused_fds_queue and pause a flow by *)
(* installing a zero entry for it in the kernel map flow_to_rwnd.          *)
(*                                                                         *)
(* Caller threads and the scheduling thread interleave at every access to  *)
(* shared state.  The kernel is part of the environment: it hands out      *)
(* descriptors and four-tuples, and its calls fail exactly where the code  *)
(* tests their result.                                                     *)
(***************************************************************************)
EXTENDS Integers, Sequences, FiniteSets, TLC

\* ---------------------------------------------------------------- bounds
MaxFd == 3           \* descriptor numbers the OS hands out: 1..MaxFd
MaxCapacity == 2     \* largest RM_MAX_ACTIVE_FLOWS tried

\* The sizes of the runs, <<concurrent callers, entries ever pushed on the
\* two queues>>: one caller and three flows, or two callers and two flows.
Sizes == {<<1, 3>>, <<2, 2>>}

\* ------------------------------------------------------ program constants
zero == 0            \* the RWND value written for a paused flow
Fail == -1           \* the failure return of accept() and close()

Max(S) == CHOOSE x \in S : \A y \in S : y <= x
Threads == 1..Max({sz[1] : sz \in Sizes})
FDs == 1..MaxFd
OtherFd == MaxFd + 1 \* stands for the descriptors of unmanaged connections
SchedId == 0         \* the scheduling thread, as a holder of the lock
NoHolder == -1       \* the lock is free

VARIABLES
  size,              \* the size of this run, one of Sizes
  max_active_flows,  \* configuration, read once at start-up
  epoch_us,
  setup,             \* volatile bool setup
  skipped_first,     \* volatile bool skipped_first
  lock,              \* holder of std::mutex lock
  active_fds_queue,
  paused_fds_queue,
  fd_to_flow,        \* the registry: a function from registered fds to flows
  flow_to_rwnd,      \* the kernel map: a function from flows to RWND values
  os,                \* the open descriptors among FDs
  spc,               \* position of the scheduling thread
  new_active_fds,    \* locals of thread_func
  num_prev_active,
  i,
  pc,                \* position of each caller thread
  new_fd,            \* locals of accept()
  flow,
  sockfd,            \* parameter of close()
  ret,               \* value returned to the caller
  why                \* the RM_PRINTF message of the returning branch

cfgvars == <<size, max_active_flows, epoch_us>>
schedvars == <<spc, new_active_fds, num_prev_active, i>>
callvars == <<pc, new_fd, flow, sockfd, ret, why>>
queues == <<active_fds_queue, paused_fds_queue>>
vars == <<size, max_active_flows, epoch_us, setup, skipped_first, lock,
          active_fds_queue, paused_fds_queue, fd_to_flow, flow_to_rwnd, os,
          spc, new_active_fds, num_prev_active, i,
          pc, new_fd, flow, sockfd, ret, why>>

\* ------------------------------------------------------------- helpers
\* The function g without the key k (concurrent_flat_map::erase,
\* bpf_map_delete_elem).
Erase(g, k) == [x \in DOMAIN g \ {k} |-> g[x]]

\* concurrent_flat_map::insert: a key already present keeps its value.
Insert(g, k, v) == IF k \in DOMAIN g THEN g ELSE (k :> v) @@ g

Update_dropped(g, k, v) == g

\* bpf_map_update_elem(..., BPF_ANY): create or overwrite.
Update(g, k, v) == (k :> v) @@ g

\* fd_to_flow.visit(fd, [](p){ bpf_map_delete_elem(flow_to_rwnd_fd, &p.second) })
VisitDelete(fd) ==
  IF fd \in DOMAIN fd_to_flow THEN Erase(flow_to_rwnd, fd_to_flow[fd])
  ELSE flow_to_rwnd

\* fd_to_flow.visit(fd, [](p){ bpf_map_update_elem(..., &p.second, &zero, BPF_ANY) })
VisitUpdate(fd) ==
  IF fd \in DOMAIN fd_to_flow THEN Update(flow_to_rwnd, fd_to_flow[fd], zero)
  ELSE flow_to_rwnd

ConfigInvalid_both == max_active_flows = 0 /\ epoch_us = 0

\* Lines 71 and 159: the configuration test of thread_func() and accept().
ConfigInvalid == max_active_flows = 0 \/ epoch_us = 0

Range(s) == {s[k] : k \in DOMAIN s}

\* How often fd occurs in the queue q.
Count(q, fd) == Cardinality({k \in DOMAIN q : q[k] = fd})

\* No caller is at a return statement, handing its result to the caller.
Quiet == \A t \in Threads : pc[t] # "returned"

\* The scheduling thread is between two cycles and no other caller is
\* inside a call.  A call that touches no shared state commutes with every
\* step of the other threads, so it is taken here and nowhere else.
Calm(t) == /\ spc \in {"start", "sleep", "exit"}
           /\ \A u \in Threads \ {t} : pc[u] = "idle"

\* The callers of this run are interchangeable: a call starts on the lowest
\* of them that is idle.
Starts(t) == /\ pc[t] = "idle"
             /\ t <= size[1]
             /\ \A u \in Threads : u < t => pc[u] # "idle"

\* ---------------------------------------------------------------- Init
Init ==
  /\ size \in Sizes
  /\ max_active_flows \in 0..MaxCapacity
  /\ epoch_us \in 0..1
  /\ setup = FALSE
  /\ skipped_first = FALSE
  /\ lock = NoHolder
  /\ active_fds_queue = <<>>
  /\ paused_fds_queue = <<>>
  /\ fd_to_flow = <<>>
  /\ flow_to_rwnd = <<>>
  /\ os = {}
  /\ spc = "start"
  /\ new_active_fds = <<>>
  /\ num_prev_active = 0
  /\ i = 0
  /\ pc = [t \in Threads |-> "idle"]
  /\ new_fd = [t \in Threads |-> 0]
  /\ flow = [t \in Threads |-> 0]
  /\ sockfd = [t \in Threads |-> 0]
  /\ ret = [t \in Threads |-> 0]
  /\ why = [t \in Threads |-> ""]

\* ------------------------------------------------------------ accept()
\* A return statement of accept() or close(): the caller sees r.
ReturnWith(t, r, msg) ==
  /\ pc' = [pc EXCEPT ![t] = "returned"]
  /\ ret' = [ret EXCEPT ![t] = r]
  /\ why' = [why EXCEPT ![t] = msg]

\* real accept(): the kernel returns the lowest descriptor that is not open.
\* Connections that end up unmanaged live on descriptors outside FDs.
LowestFree == CHOOSE fd \in FDs \ os : \A g \in FDs \ os : fd <= g

\* Four-tuples that occur nowhere in the state.
FreshFlows == (1..size[2]) \ (Range(fd_to_flow) \cup DOMAIN flow_to_rwnd
                               \cup Range(flow))

\* The four-tuple of a new connection: fresh ones are interchangeable, so
\* the lowest stands for them all.
NewFlow == CHOOSE f \in FreshFlows : \A g \in FreshFlows : f <= g

\* Entries on the queues, those the scan has popped and not yet pushed
\* back, and those the accepts in progress will push.
QueueLoad == Len(active_fds_queue) + Len(paused_fds_queue)
             + (IF spc = "scan" THEN Len(new_active_fds) ELSE 0)
             + Cardinality({t \in Threads : pc[t] = "a_lock"})

CcaFailRet_failure(fd) == Fail

\* What accept() returns when the congestion-control option cannot be
\* installed or verified (lines 220, 227, 232).
CcaFailRet(fd) == fd

AddrFailRet_handle(fd) == fd

\* What accept() returns when getsockname/getpeername fails (lines 243, 251).
AddrFailRet(fd) == Fail

SkelFailRet_failure(fd) == Fail

\* What accept() returns when the BPF skeleton cannot be loaded (line 190).
SkelFailRet(fd) == fd

\* Line 210: the test of the first-flow hack.
IsFirst == DOMAIN fd_to_flow = {} /\ ~skipped_first

\* Lines 159-175: the calls of accept() that produce no connection.
AcceptFail(t) ==
  /\ Starts(t)
  /\ Calm(t)
  /\ IF ConfigInvalid
     THEN ReturnWith(t, Fail, "config")
     ELSE ReturnWith(t, Fail, "real_accept")
  /\ UNCHANGED <<cfgvars, setup, skipped_first, lock, queues, fd_to_flow,
                 flow_to_rwnd, os, schedvars, new_fd, flow, sockfd>>

\* Lines 159-257: the calls of accept() that produce a connection and leave
\* it unmanaged: another address family, a failed BPF setup, the first
\* flow, a failure of congestion control or of the address lookups.
AcceptUnmanaged(t) ==
  /\ Starts(t)
  /\ ~ConfigInvalid
  /\ new_fd' = [new_fd EXCEPT ![t] = OtherFd]
  /\ UNCHANGED <<cfgvars, skipped_first, lock, queues, fd_to_flow,
                 flow_to_rwnd, os, schedvars, flow, sockfd>>
  /\ \/ /\ Calm(t)
        /\ ReturnWith(t, OtherFd, "non_inet")
        /\ UNCHANGED setup
     \/ /\ Calm(t)
        /\ ~setup
        /\ ReturnWith(t, SkelFailRet(OtherFd), "skel_null")
        /\ UNCHANGED setup
     \/ /\ setup' = TRUE
        /\ \/ /\ IsFirst
              /\ pc' = [pc EXCEPT ![t] = "a_skip"]
              /\ UNCHANGED <<ret, why>>
           \/ /\ ~IsFirst
              /\ setup
              /\ Calm(t)
              /\ \E msg \in {"setsockopt", "getsockopt", "cca_mismatch"} :
                   ReturnWith(t, CcaFailRet(OtherFd), msg)
           \/ /\ ~IsFirst
              /\ setup
              /\ Calm(t)
              /\ \E msg \in {"getsockname", "getpeername"} :
                   ReturnWith(t, AddrFailRet(OtherFd), msg)

\* Lines 159-260: the call of accept() that registers its connection.
AcceptCall(t) ==
  /\ Starts(t)
  /\ ~ConfigInvalid
  /\ FDs \ os # {}
  /\ FreshFlows # {}
  /\ QueueLoad < size[2]
  /\ ~IsFirst
  /\ setup' = TRUE
  /\ os' = os \cup {LowestFree}
  /\ new_fd' = [new_fd EXCEPT ![t] = LowestFree]
  /\ fd_to_flow' = Insert(fd_to_flow, LowestFree, NewFlow)
  /\ flow' = [flow EXCEPT ![t] = NewFlow]
  /\ pc' = [pc EXCEPT ![t] = "a_lock"]
  /\ UNCHANGED <<cfgvars, skipped_first, lock, queues, flow_to_rwnd,
                 schedvars, sockfd, ret, why>>

\* Lines 211-213: the first flow is skipped.
AcceptSkip(t) ==
  /\ pc[t] = "a_skip"
  /\ skipped_first' = TRUE
  /\ ReturnWith(t, new_fd[t], "skipped_first")
  /\ UNCHANGED <<cfgvars, setup, lock, queues, fd_to_flow, flow_to_rwnd, os,
                 schedvars, new_fd, flow, sockfd>>

HasRoom_inclusive == Len(active_fds_queue) <= max_active_flows

\* Line 265: should this flow be active?
HasRoom == Len(active_fds_queue) < max_active_flows

\* Lines 262-278: the locked section of accept() and its return.  The
\* section touches the queues alone and one kernel-map key that no other
\* thread knows, so it is one step, taken when the lock is free.
AcceptClassify(t) ==
  /\ pc[t] = "a_lock"
  /\ lock = NoHolder
  /\ IF HasRoom
     THEN /\ active_fds_queue' = Append(active_fds_queue, new_fd[t])
          /\ UNCHANGED <<paused_fds_queue, flow_to_rwnd>>
     ELSE /\ paused_fds_queue' = Append(paused_fds_queue, new_fd[t])
          /\ flow_to_rwnd' = Update(flow_to_rwnd, flow[t], zero)
          /\ UNCHANGED active_fds_queue
  /\ ReturnWith(t, new_fd[t], "ok")
  /\ UNCHANGED <<cfgvars, setup, skipped_first, lock, fd_to_flow, os,
                 schedvars, new_fd, flow, sockfd>>

\* ------------------------------------------------------------- close()
CloseRet_success(r) == 0

\* Lines 289, 292, 306: close() returns ret, the result of the real close().
CloseRet(r) == r

\* Lines 283-293: the real close().  The application closes descriptors it
\* holds or held, not one that an accept in progress has yet to return.
\* Closing a descriptor that is not open fails; an unmanaged one is open.
CloseCall(t, fd) ==
  /\ Starts(t)
  /\ \A u \in Threads : pc[u] = "a_lock" => new_fd[u] # fd
  /\ sockfd' = [sockfd EXCEPT ![t] = fd]
  /\ UNCHANGED <<cfgvars, setup, skipped_first, lock, queues, fd_to_flow,
                 flow_to_rwnd, schedvars, new_fd, flow>>
  /\ \/ /\ fd \in os
        /\ os' = os \ {fd}
        /\ pc' = [pc EXCEPT ![t] = "c_visit"]
        /\ UNCHANGED <<ret, why>>
     \/ /\ fd = OtherFd
        /\ Calm(t)
        /\ pc' = [pc EXCEPT ![t] = "c_visit"]
        /\ UNCHANGED <<os, ret, why>>
     \/ /\ fd \in FDs \ os
        /\ Calm(t)
        /\ ReturnWith(t, CloseRet(Fail), "real_close")
        /\ UNCHANGED os

\* Lines 298-300: clear the flow's entry of the kernel map.  flow[t] is
\* p.second, the flow the visit finds.
CloseVisit(t) ==
  /\ pc[t] = "c_visit"
  /\ flow_to_rwnd' = VisitDelete(sockfd[t])
  /\ flow' = [flow EXCEPT ![t] = IF sockfd[t] \in DOMAIN fd_to_flow
                                  THEN fd_to_flow[sockfd[t]] ELSE 0]
  /\ pc' = [pc EXCEPT ![t] = "c_erase"]
  /\ UNCHANGED <<cfgvars, setup, skipped_first, lock, queues, fd_to_flow, os,
                 schedvars, new_fd, sockfd, ret, why>>

\* Lines 303-306: deregister and return.
CloseErase(t) ==
  /\ pc[t] = "c_erase"
  /\ fd_to_flow' = Erase(fd_to_flow, sockfd[t])
  /\ ReturnWith(t, CloseRet(0), "closed")
  /\ UNCHANGED <<cfgvars, setup, skipped_first, lock, queues, flow_to_rwnd,
                 os, schedvars, new_fd, flow, sockfd>>

\* The caller has taken the result; the thread is free for its next call.
Return(t) ==
  /\ pc[t] = "returned"
  /\ pc' = [pc EXCEPT ![t] = "idle"]
  /\ new_fd' = [new_fd EXCEPT ![t] = 0]
  /\ flow' = [flow EXCEPT ![t] = 0]
  /\ sockfd' = [sockfd EXCEPT ![t] = 0]
  /\ ret' = [ret EXCEPT ![t] = 0]
  /\ why' = [why EXCEPT ![t] = ""]
  /\ UNCHANGED <<cfgvars, setup, skipped_first, lock, queues, fd_to_flow,
                 flow_to_rwnd, os, schedvars>>

\* -------------------------------------------------------- thread_func()
\* Lines 71-75: the scheduling thread returns at once on a bad configuration.
SchedStart ==
  /\ spc = "start"
  /\ spc' = IF ConfigInvalid THEN "exit" ELSE "sleep"
  /\ UNCHANGED <<cfgvars, setup, skipped_first, lock, queues, fd_to_flow,
                 flow_to_rwnd, os, new_active_fds,
                 num_prev_active, i, callvars>>

\* Lines 94-95 read the queues without the lock.
NoNeed == Len(active_fds_queue) < max_active_flows
          /\ Len(paused_fds_queue) = 0

\* A caller is at its locked section, changing a queue, while the
\* scheduling thread reads the queues' sizes: a data race, either outcome.
RacyRead == \E t \in Threads : pc[t] = "a_lock"

\* Lines 83-102: one epoch; skip, or go on to schedule and take the lock.
\* No caller holds the lock for longer than one step, and a push between
\* the test and lock.lock() leaves the test's outcome as it was.
SchedEpoch ==
  /\ spc = "sleep"
  /\ setup
  /\ \/ /\ NoNeed \/ RacyRead
        /\ UNCHANGED <<schedvars, lock>>
     \/ /\ ~NoNeed \/ RacyRead
        /\ lock = NoHolder
        /\ lock' = SchedId
        /\ spc' = "scan"
        /\ UNCHANGED <<new_active_fds, num_prev_active, i>>
  /\ UNCHANGED <<cfgvars, setup, skipped_first, queues, fd_to_flow,
                 flow_to_rwnd, os, callvars>>

ScanMore_inclusive == paused_fds_queue # <<>>
                      /\ Len(new_active_fds) <= max_active_flows

\* Lines 105-106: the condition of the scan loop.
ScanMore == paused_fds_queue # <<>>
            /\ Len(new_active_fds) < max_active_flows

\* Lines 105-114: one iteration of the scan of the paused queue, or its end.
SchedScan ==
  /\ spc = "scan"
  /\ IF ScanMore
     THEN /\ IF Head(paused_fds_queue) \in DOMAIN fd_to_flow
             THEN /\ paused_fds_queue' = Tail(paused_fds_queue)
                  /\ new_active_fds' =
                       Append(new_active_fds, Head(paused_fds_queue))
             ELSE UNCHANGED <<paused_fds_queue, new_active_fds>>
          /\ UNCHANGED <<spc, num_prev_active, i>>
     ELSE /\ num_prev_active' = Len(active_fds_queue)
          /\ spc' = "activate"
          /\ i' = 0
          /\ UNCHANGED <<paused_fds_queue, new_active_fds>>
  /\ UNCHANGED <<cfgvars, setup, skipped_first, lock, active_fds_queue,
                 fd_to_flow, flow_to_rwnd, os, callvars>>

\* Lines 120-127: one iteration of the activation loop, or its end.
SchedActivate ==
  /\ spc = "activate"
  /\ IF i < Len(new_active_fds)
     THEN /\ active_fds_queue' = Append(active_fds_queue, new_active_fds[i + 1])
          /\ flow_to_rwnd' = VisitDelete(new_active_fds[i + 1])
          /\ i' = i + 1
          /\ UNCHANGED spc
     ELSE /\ spc' = "pause"
          /\ i' = 0
          /\ UNCHANGED <<active_fds_queue, flow_to_rwnd>>
  /\ UNCHANGED <<cfgvars, setup, skipped_first, lock, paused_fds_queue,
                 fd_to_flow, os, new_active_fds, num_prev_active,
                 callvars>>

NumToPause_promoted == Len(new_active_fds)

\* Line 134: how many of the active flows the cycle pauses.
NumToPause == num_prev_active

SchedPause_lifo ==
  /\ spc = "pause"
  /\ IF i < NumToPause
     THEN /\ active_fds_queue' = Tail(active_fds_queue)
          /\ paused_fds_queue' = <<Head(active_fds_queue)>> \o paused_fds_queue
          /\ flow_to_rwnd' = VisitUpdate(Head(active_fds_queue))
          /\ i' = i + 1
          /\ UNCHANGED spc
     ELSE /\ spc' = "unlock"
          /\ UNCHANGED <<queues, flow_to_rwnd, i>>
  /\ UNCHANGED <<cfgvars, setup, skipped_first, lock, fd_to_flow, os,
                 new_active_fds, num_prev_active, callvars>>

\* Lines 134-144: one iteration of the pausing loop, or its end.
SchedPause ==
  /\ spc = "pause"
  /\ IF i < NumToPause
     THEN /\ active_fds_queue' = Tail(active_fds_queue)
          /\ paused_fds_queue' =
               Append(paused_fds_queue, Head(active_fds_queue))
          /\ flow_to_rwnd' = VisitUpdate(Head(active_fds_queue))
          /\ i' = i + 1
          /\ UNCHANGED spc
     ELSE /\ spc' = "unlock"
          /\ UNCHANGED <<queues, flow_to_rwnd, i>>
  /\ UNCHANGED <<cfgvars, setup, skipped_first, lock, fd_to_flow, os,
                 new_active_fds, num_prev_active, callvars>>

\* Lines 147-148: release the lock, forget the cycle's locals.
SchedUnlock ==
  /\ spc = "unlock"
  /\ lock' = NoHolder
  /\ spc' = "sleep"
  /\ new_active_fds' = <<>>
  /\ num_prev_active' = 0
  /\ i' = 0
  /\ UNCHANGED <<cfgvars, setup, skipped_first, queues, fd_to_flow,
                 flow_to_rwnd, os, callvars>>

\* ---------------------------------------------------------------- Next
Sched == SchedStart \/ SchedEpoch \/ SchedScan
         \/ SchedActivate \/ SchedPause \/ SchedUnlock

\* The steps by which a call in progress runs to its return.
Proceed(t) == AcceptSkip(t) \/ AcceptClassify(t)
              \/ CloseVisit(t) \/ CloseErase(t)

\* A return statement hands over its result before anything else moves: the
\* step is local to the caller.
Next ==
  \/ \E t \in Threads : Return(t)
  \/ Quiet /\ \E t \in Threads : AcceptFail(t)
  \/ Quiet /\ \E t \in Threads : AcceptUnmanaged(t)
  \/ Quiet /\ \E t \in Threads : AcceptCall(t)
  \/ Quiet /\ \E t \in Threads : AcceptSkip(t)
  \/ Quiet /\ \E t \in Threads : AcceptClassify(t)
  \/ Quiet /\ \E t \in Threads, fd \in FDs \cup {OtherFd} : CloseCall(t, fd)
  \/ Quiet /\ \E t \in Threads : CloseVisit(t)
  \/ Quiet /\ \E t \in Threads : CloseErase(t)
  \/ Quiet /\ SchedStart
  \/ Quiet /\ SchedEpoch
  \/ Quiet /\ SchedScan
  \/ Quiet /\ SchedActivate
  \/ Quiet /\ SchedPause
  \/ Quiet /\ SchedUnlock

Spec == Init /\ [][Next]_vars

\* The scheduling thread keeps running and every call in progress runs on:
\* no thread that can take a step waits forever, whatever the others do.
FairSpec == Spec /\ WF_vars(Sched)
                 /\ \A t \in Threads :
                      WF_vars(Proceed(t)) /\ WF_vars(Return(t))

\* ============================================================== claims
\* A caller is between the registration of fd and its push on a queue.
Enqueuing(fd) == \E t \in Threads : pc[t] = "a_lock" /\ new_fd[t] = fd

\* How often fd occurs on the two queues together.
Occurrences(fd) == Count(active_fds_queue, fd) + Count(paused_fds_queue, fd)

\* C1: while the scheduling thread is outside its locked section, every
\* registered descriptor (whose accept has pushed it) occurs exactly once
\* in the two queues together.
C1_RegisteredOnceInQueues ==
  lock # SchedId =>
    \A fd \in DOMAIN fd_to_flow : ~Enqueuing(fd) => Occurrences(fd) = 1

\* The step of the scheduling thread that pauses one active flow.
PauseStep == spc = "pause" /\ i' = i + 1

\* C2, as claimed: a cycle pauses exactly as many flows as it promoted.
C2_PausesAsManyAsPromoted ==
  spc = "unlock" => i = Len(new_active_fds)

\* C2, amended: a cycle pauses every flow that was active when its scan
\* ended, whatever the number N it promoted: each pausing step moves the
\* front of the active queue to the back of the paused queue and installs
\* a zero entry for it if it is registered, and at the end of the cycle the
\* active queue holds the N promoted flows and nothing else.
C2_PausesAllPreviouslyActive ==
  [][ /\ PauseStep =>
          /\ active_fds_queue' = Tail(active_fds_queue)
          /\ paused_fds_queue' =
               Append(paused_fds_queue, Head(active_fds_queue))
          /\ Head(active_fds_queue) \in DOMAIN fd_to_flow =>
               /\ fd_to_flow[Head(active_fds_queue)] \in DOMAIN flow_to_rwnd'
               /\ flow_to_rwnd'[fd_to_flow[Head(active_fds_queue)]] = zero
      /\ spc' = "unlock" =>
          /\ i' = num_prev_active'
          /\ active_fds_queue' = new_active_fds' ]_vars

\* Scenario B as the code runs it: capacity 2, two flows were active and
\* one paused; the cycle promoted the one and paused both.
C2_Witness ==
  /\ spc = "unlock"
  /\ max_active_flows = 2
  /\ num_prev_active = 2
  /\ Len(new_active_fds) = 1
  /\ Len(active_fds_queue) = 1
  /\ Len(paused_fds_queue) = 2
  /\ \A k \in 1..2 :
       /\ paused_fds_queue[k] \in DOMAIN fd_to_flow
       /\ fd_to_flow[paused_fds_queue[k]] \in DOMAIN flow_to_rwnd

\* C3: when close() has returned for a registered descriptor, the registry
\* has no entry for the descriptor and the kernel map none for its flow.
C3_ClosedFlowIsGone ==
  \A t \in Threads :
    (pc[t] = "returned" /\ why[t] = "closed" /\ flow[t] # 0) =>
      /\ sockfd[t] \notin DOMAIN fd_to_flow
      /\ flow[t] \notin DOMAIN flow_to_rwnd

\* C4: while the scheduling thread is outside its locked section, the
\* active queue holds at most max_active_flows descriptors.
C4_ActiveWithinCapacity ==
  lock # SchedId => Len(active_fds_queue) <= max_active_flows

\* The active queue is full, a further flow waits paused, and the
\* scheduling thread sleeps.
C4_Witness ==
  /\ lock # SchedId
  /\ spc = "sleep"
  /\ max_active_flows = 2
  /\ Len(active_fds_queue) = 2
  /\ Len(paused_fds_queue) = 1

\* C5: in every state the active queue holds at most twice
\* max_active_flows descriptors.
C5_ActiveWithinTwiceCapacity ==
  Len(active_fds_queue) <= 2 * max_active_flows

\* Inside the swap, after the promotions and before the first pause, the
\* active queue holds twice the capacity.
C5_Witness ==
  /\ spc = "pause"
  /\ i = 0
  /\ max_active_flows >= 1
  /\ Len(new_active_fds) = max_active_flows
  /\ Len(active_fds_queue) = 2 * max_active_flows

\* A registered descriptor waits in the paused queue while more flows are
\* registered than may be active.
WaitsPaused(fd) ==
  /\ fd \in DOMAIN fd_to_flow
  /\ fd \in Range(paused_fds_queue)
  /\ Cardinality(DOMAIN fd_to_flow) > max_active_flows

\* A registered descriptor is in the active queue and the kernel map has no
\* entry for its flow.
RunsActive(fd) ==
  /\ fd \in DOMAIN fd_to_flow
  /\ fd \in Range(active_fds_queue)
  /\ fd_to_flow[fd] \notin DOMAIN flow_to_rwnd

\* C6: under weak fairness of the scheduling thread, every registered
\* descriptor that waits in the paused queue is eventually active with its
\* kernel-map entry removed, unless it is deregistered first; and so again
\* each time it is paused.
C6_PausedEventuallyActive ==
  \A fd \in FDs :
    WaitsPaused(fd) ~> (RunsActive(fd) \/ fd \notin DOMAIN fd_to_flow)

\* A descriptor that close() has deregistered is still referenced by a queue.
Stale(fd) == fd \notin DOMAIN fd_to_flow /\ Occurrences(fd) > 0

\* C7: a descriptor that close() deregistered and that is not registered
\* again eventually occurs in neither queue.
C7_StaleEventuallyGone ==
  \A fd \in FDs :
    Stale(fd) ~> (Occurrences(fd) = 0 \/ fd \in DOMAIN fd_to_flow)

\* The step of accept() that registers the new descriptor (line 260).
RegisterStep(t) == pc[t] = "idle" /\ pc'[t] = "a_lock"

\* The step of accept() that runs its locked section (lines 262-278).
ClassifyStep(t) == pc[t] = "a_lock" /\ pc'[t] = "returned"

\* C8: an accept that reaches registration registers the descriptor; under
\* the lock it appends it to the active queue and writes nothing to the
\* kernel map if the active queue is below max_active_flows, and otherwise
\* appends it to the paused queue and installs a zero entry for its flow;
\* it returns the descriptor.
C8_AcceptRegistersAndClassifies ==
  [][ \A t \in Threads :
        /\ RegisterStep(t) => new_fd'[t] \in DOMAIN fd_to_flow'
        /\ ClassifyStep(t) =>
            /\ ret'[t] = new_fd[t]
            /\ IF Len(active_fds_queue) < max_active_flows
               THEN /\ active_fds_queue' =
                         Append(active_fds_queue, new_fd[t])
                    /\ paused_fds_queue' = paused_fds_queue
                    /\ flow_to_rwnd' = flow_to_rwnd
               ELSE /\ paused_fds_queue' =
                         Append(paused_fds_queue, new_fd[t])
                    /\ active_fds_queue' = active_fds_queue
                    /\ flow[t] \in DOMAIN flow_to_rwnd'
                    /\ flow_to_rwnd'[flow[t]] = zero
                    /\ \A f \in DOMAIN flow_to_rwnd' \ {flow[t]} :
                         /\ f \in DOMAIN flow_to_rwnd
                         /\ flow_to_rwnd'[f] = flow_to_rwnd[f] ]_vars

\* Scenario A: capacity 2, three connections accepted in order with no
\* cycle of the scheduling thread in between; the third accept has just
\* returned.
C8_Witness ==
  /\ max_active_flows = 2
  /\ Len(active_fds_queue) = 2
  /\ Len(paused_fds_queue) = 1
  /\ Cardinality(Range(active_fds_queue) \cup Range(paused_fds_queue)) = 3
  /\ Range(active_fds_queue) \cup Range(paused_fds_queue) = DOMAIN fd_to_flow
  /\ DOMAIN flow_to_rwnd = {fd_to_flow[paused_fds_queue[1]]}
  /\ \E t \in Threads :
       /\ pc[t] = "returned"
       /\ why[t] = "ok"
       /\ ret[t] = paused_fds_queue[1]

\* The ways the congestion-control set-up of accept() fails (lines 217-233).
CcaFailures == {"setsockopt", "getsockopt", "cca_mismatch"}

\* The ways the address lookups of accept() fail (lines 240-252).
AddrFailures == {"getsockname", "getpeername"}

\* C9, as claimed: when the congestion-control set-up fails, accept()
\* returns -1.
C9_CcaFailureReturnsFailure ==
  \A t \in Threads :
    (pc[t] = "returned" /\ why[t] \in CcaFailures) => ret[t] = Fail

\* C9, amended: when the congestion-control set-up fails, accept() returns
\* the new descriptor, as on success, and the connection is neither
\* registered nor queued nor closed.
C9_CcaFailureReturnsHandle ==
  [][ \A t \in Threads :
        (pc'[t] = "returned" /\ why'[t] \in CcaFailures /\ pc[t] = "idle") =>
          /\ ret'[t] = new_fd'[t]
          /\ ret'[t] # Fail
          /\ UNCHANGED <<fd_to_flow, queues, flow_to_rwnd, os>> ]_vars

\* An accept() whose read-back of the congestion-control name differed has
\* returned the descriptor of the connection.
C9_Witness ==
  \E t \in Threads :
    /\ pc[t] = "returned"
    /\ why[t] = "cca_mismatch"
    /\ ret[t] = new_fd[t]
    /\ new_fd[t] \notin DOMAIN fd_to_flow
    /\ Occurrences(new_fd[t]) = 0

\* C10: when the local- or peer-address lookup fails, accept() returns -1
\* and leaves the registry, both queues and the kernel map as they were,
\* and does not close the descriptor.
C10_AddrFailureReturnsFailure ==
  [][ \A t \in Threads :
        (pc'[t] = "returned" /\ why'[t] \in AddrFailures /\ pc[t] = "idle") =>
          /\ ret'[t] = Fail
          /\ UNCHANGED <<fd_to_flow, queues, flow_to_rwnd, os>> ]_vars

\* An accept() whose peer-address lookup failed has returned -1 while
\* flows are registered, and its connection is in neither queue.
C10_Witness ==
  \E t \in Threads :
    /\ pc[t] = "returned"
    /\ why[t] = "getpeername"
    /\ ret[t] = Fail
    /\ DOMAIN fd_to_flow # {}
    /\ new_fd[t] \notin DOMAIN fd_to_flow
    /\ Occurrences(new_fd[t]) = 0

\* The messages of the returns of close().
CloseReturns == {"real_close", "closed"}

\* C11: when max_active_flows or epoch_us is zero, every accept() returns
\* -1 and registers nothing, and the scheduling thread never takes the
\* lock, never changes a queue and never writes the kernel map.
C11_InvalidConfigDoesNothing ==
  (max_active_flows = 0 \/ epoch_us = 0) =>
    /\ \A t \in Threads :
         /\ pc[t] \notin {"a_skip", "a_lock"}
         /\ (pc[t] = "returned" /\ why[t] \notin CloseReturns) =>
              (why[t] = "config" /\ ret[t] = Fail)
    /\ spc \in {"start", "exit"}
    /\ lock = NoHolder
    /\ ~setup
    /\ fd_to_flow = <<>>
    /\ active_fds_queue = <<>>
    /\ paused_fds_queue = <<>>
    /\ flow_to_rwnd = <<>>

\* With epoch_us zero and a capacity set, the scheduling thread has
\* returned and an accept() has returned -1.
C11_Witness ==
  /\ max_active_flows > 0
  /\ epoch_us = 0
  /\ spc = "exit"
  /\ \E t \in Threads :
       pc[t] = "returned" /\ why[t] = "config" /\ ret[t] = Fail

\* C12: close() returns what the real close() returned: -1 when it failed,
\* and then the registry, both queues and the kernel map are as before;
\* 0 when it succeeded, whatever the bookkeeping did.
C12_CloseReturnsRealResult ==
  [][ \A t \in Threads :
        /\ (pc'[t] = "returned" /\ why'[t] = "real_close"
              /\ pc[t] = "idle") =>
             /\ ret'[t] = Fail
             /\ UNCHANGED <<fd_to_flow, queues, flow_to_rwnd>>
        /\ (pc'[t] = "returned" /\ why'[t] = "closed"
              /\ pc[t] = "c_erase") =>
             ret'[t] = 0 ]_vars

\* A close() of a descriptor that is not open has returned -1 while a
\* flow is registered and paused.
C12_Witness ==
  \E t \in Threads :
    /\ pc[t] = "returned"
    /\ why[t] = "real_close"
    /\ ret[t] = Fail
    /\ paused_fds_queue # <<>>
    /\ DOMAIN fd_to_flow # {}
    /\ DOMAIN flow_to_rwnd # {}

\* The close() of thread t has issued bpf_map_delete_elem for flow f and
\* has yet to deregister its descriptor.
IssuedDelete(t, f) == pc[t] = "c_erase" /\ f # 0 /\ flow[t] = f

\* C13: the close() calls issue at most one kernel-map delete for a flow.
\* The registration of a flow ends with the first close() that reaches its
\* erase, so a second delete can only come from a close() that runs while
\* the first is between its delete and its erase.
C13_AtMostOneDeletePerFlow ==
  \A t, u \in Threads :
    (t # u /\ IssuedDelete(t, flow[t])) => ~IssuedDelete(u, flow[t])

StaleAtFront ==
  /\ spc = "scan"
  /\ ScanMore
  /\ Head(paused_fds_queue) \notin DOMAIN fd_to_flow

\* C15: when the scan finds an unregistered descriptor at the front of the
\* paused queue it removes it and goes on, so the scan does not stay at
\* that descriptor.
C15_StaleFrontDropped == StaleAtFront ~> ~StaleAtFront

C17_QueuesReadUnderLock ==
  [][ (spc = "sleep" /\ spc' = "scan") => lock = SchedId ]_vars

\* C18: at most one accept() takes the first-connection exemption: those
\* that have passed the test of line 210 and the one that has set
\* skipped_first are at most one together.
C18_ExemptionTakenOnce ==
  Cardinality({t \in Threads : pc[t] = "a_skip"})
    + (IF skipped_first THEN 1 ELSE 0) <= 1

\* C19: a descriptor leaves a queue from its front and enters the other
\* queue at its back: the scan pops the front of the paused queue, which is
\* registered, the promoted enter the active queue in the order the scan
\* took them, and the paused enter the paused queue in their active-queue
\* order.
C19_StrictFifoRotation ==
  [][ /\ Len(paused_fds_queue') < Len(paused_fds_queue) =>
          /\ spc = "scan"
          /\ Head(paused_fds_queue) \in DOMAIN fd_to_flow
          /\ paused_fds_queue' = Tail(paused_fds_queue)
          /\ new_active_fds' = Append(new_active_fds, Head(paused_fds_queue))
      /\ (spc = "activate" /\ active_fds_queue' # active_fds_queue) =>
          /\ active_fds_queue' =
               Append(active_fds_queue, new_active_fds[i + 1])
          /\ i' = i + 1
      /\ (spc = "activate" /\ spc' = "pause") =>
          /\ i = Len(new_active_fds)
          /\ Len(active_fds_queue) >= i
          /\ SubSeq(active_fds_queue, Len(active_fds_queue) - i + 1,
                    Len(active_fds_queue)) = new_active_fds
      /\ Len(active_fds_queue') < Len(active_fds_queue) =>
          /\ spc = "pause"
          /\ active_fds_queue' = Tail(active_fds_queue)
          /\ paused_fds_queue' =
               Append(paused_fds_queue, Head(active_fds_queue)) ]_vars

\* A cycle has promoted two descriptors, in their paused-queue order, and
\* paused the one that was active.
C19_Witness ==
  /\ spc = "unlock"
  /\ Len(new_active_fds) = 2
  /\ new_active_fds[1] # new_active_fds[2]
  /\ active_fds_queue = new_active_fds
  /\ num_prev_active = 1
  /\ Len(paused_fds_queue) = 1
  /\ paused_fds_queue[1] \notin Range(active_fds_queue)

\* No accept() or close() is in progress and the scheduling thread is
\* outside its locked section.
Quiescent == lock # SchedId /\ \A t \in Threads : pc[t] = "idle"

\* C20: in a quiescent state the keys of the kernel map are the flows of
\* the registered descriptors in the paused queue, and no registered
\* descriptor in the active queue has an entry.
C20_MapMatchesPausedFlows ==
  Quiescent =>
    /\ DOMAIN flow_to_rwnd =
         {fd_to_flow[fd] : fd \in DOMAIN fd_to_flow \cap Range(paused_fds_queue)}
    /\ \A fd \in DOMAIN fd_to_flow \cap Range(active_fds_queue) :
         fd_to_flow[fd] \notin DOMAIN flow_to_rwnd

====
